---------------------------- MODULE Spec2Model ----------------------------
(* Model of src/70mai.py: main() hands every input file to                *)
(* parse_70mai_mp4(), which walks the top level atoms of an MP4 file,     *)
(* decodes the 36-byte records of every 'GPS ' atom and writes one text   *)
(* line per record to <name>.log.                                         *)
(*                                                                        *)
(* Files are sequences of bytes (0..255); headers and records are decoded *)
(* from the bytes as struct.unpack does.  A decoded number at or above    *)
(* Huge is represented by Huge, and a 64-bit size at or above 2^63, which *)
(* f.seek() refuses, by SeekLimit.                                        *)
EXTENDS Integers, Sequences, FiniteSets, TLC

(* ------------------------------ bounds -------------------------------- *)
\* largest number of whole records a generated payload or declared size holds
MaxRecs == 2
\* largest number of input files on the command line
MaxBatch == 2
\* decoded numbers saturate here; far above the length of any file drawn
Huge == 4194304

(* ------------------------- program constants -------------------------- *)
\* f.read(8) of the atom header, '>I4s'
HeaderLen == 8
\* f.read(36) of one GPS record, '<IIIIcici10s'
RecordLen == 36
\* initial value of gps_size
GpsSizeStart == 8
\* offset += 8 on the big-atom path
BigOffsetStep == 8
\* len(fname) < 24 is rejected
MinNameLen == 24

(* --------------------------- byte helpers ----------------------------- *)
\* f.read(n) at position pos: at most n bytes, fewer (or none) at end of file
Read(f, pos, n) ==
    IF pos >= Len(f) THEN <<>>
    ELSE SubSeq(f, pos + 1, IF pos + n <= Len(f) THEN pos + n ELSE Len(f))

\* stands for every offset f.seek() rejects (2^63 and above)
SeekLimit == 2 * Huge

Saturate(n) == IF n >= Huge THEN Huge ELSE n

\* the number the last three bytes of b spell, most significant first
Low3(b) == b[Len(b) - 2] * 65536 + b[Len(b) - 1] * 256 + b[Len(b)]

\* the number a sequence of 4 or 8 bytes spells, most significant first
Unsigned(b) ==
    IF \E i \in 1..(Len(b) - 3) : b[i] > 0 THEN Huge ELSE Saturate(Low3(b))

\* big-endian unsigned integer of a byte sequence ('>I', '>Q')
BigEndian(b) == IF Len(b) = 8 /\ b[1] >= 128 THEN SeekLimit ELSE Unsigned(b)

\* little-endian unsigned integer ('<I')
LittleEndian(b) == Unsigned([i \in 1..Len(b) |-> b[Len(b) + 1 - i]])

\* little-endian two's complement integer ('<i')
LittleEndianSigned(b) ==
    IF b[Len(b)] >= 128
    THEN 0 - (1 + LittleEndian([i \in 1..Len(b) |-> 255 - b[i]]))
    ELSE LittleEndian(b)

\* bytes.decode('ascii') succeeds iff every byte is below 128
IsAscii(b) == \A i \in 1..Len(b) : b[i] < 128

\* 'GPS '
GpsTag == <<71, 80, 83, 32>>

\* struct.unpack('>I4s', atom_header)
UnpackHeader(h) ==
    [atom_size |-> BigEndian(SubSeq(h, 1, 4)), atom_type |-> SubSeq(h, 5, 8)]

\* struct.unpack('<IIIIcici10s', record)
UnpackRecord(r) ==
    [f1        |-> LittleEndian(SubSeq(r, 1, 4)),
     f2        |-> LittleEndian(SubSeq(r, 5, 8)),
     time_diff |-> LittleEndian(SubSeq(r, 9, 12)),
     speed     |-> LittleEndian(SubSeq(r, 13, 16)),
     clat      |-> SubSeq(r, 17, 17),
     lat       |-> LittleEndianSigned(SubSeq(r, 18, 21)),
     clon      |-> SubSeq(r, 22, 22),
     lon       |-> LittleEndianSigned(SubSeq(r, 23, 26)),
     rest      |-> SubSeq(r, 27, 36)]


(* ------------------------- calendar arithmetic ------------------------ *)
IsLeap(y) == (y % 4 = 0 /\ y % 100 # 0) \/ y % 400 = 0

DaysInMonth(y, m) ==
    IF m = 2 THEN (IF IsLeap(y) THEN 29 ELSE 28)
    ELSE IF m \in {4, 6, 9, 11} THEN 30 ELSE 31

\* the day after the calendar day of t
NextDay(t) ==
    IF t.day < DaysInMonth(t.year, t.month) THEN [t EXCEPT !.day = t.day + 1]
    ELSE IF t.month < 12 THEN [t EXCEPT !.day = 1, !.month = t.month + 1]
    ELSE [t EXCEPT !.day = 1, !.month = 1, !.year = t.year + 1]

\* (the one-element sets bind a value once, where LET would evaluate its
\* definition again at every use)
RECURSIVE AddDays(_, _)
AddDays(t, n) ==
    IF n = 0 THEN t
    ELSE CHOOSE r \in { AddDays(u, m) : u \in {NextDay(t)}, m \in {n - 1} } : TRUE

\* ftime + datetime.timedelta(seconds=time_diff)
AddSeconds(t, s) ==
    CHOOSE r \in
        { [AddDays(t, total \div 86400) EXCEPT
              !.hour = (total % 86400) \div 3600,
              !.minute = (total % 3600) \div 60,
              !.second = total % 60] :
          total \in {t.hour * 3600 + t.minute * 60 + t.second + s} } : TRUE

(* --------------------------- line rendering --------------------------- *)
\* A line of text is a sequence of tokens; "," separates fields and ";"
\* ends the line.  Numeric tokens carry the number that is printed.
Tok(k, n) == [k |-> k, n |-> n]
Sep == Tok(",", 0)
Term == Tok(";", 0)

\* "{:02d}{:02d}{:02d}" of day, month, year % 100
DateTok(ts) == Tok("DDMMYY", ts.day * 10000 + ts.month * 100 + (ts.year % 100))

\* "{:02d}{:02d}{:02d}.000" of hour, minute, second
TimeToks(ts) ==
    << Tok("HHMMSS", ts.hour * 10000 + ts.minute * 100 + ts.second), Tok(".000", 0) >>

\* "{:8.4f}" of float(v)/1000.0, printed number in units of 1/10000
DegTok(v) == Tok("8.4f", v * 10)

\* "{:.2f}" of float(speed)/1000.0/1.852, printed number in units of 1/100
KnotsTok(speed) == Tok(".2f", (speed * 100 + 926) \div 1852)

\* "{}" of a decoded one-character string
CharTok(c) == Tok("chr", c[1])

\* a slip: the test reads the first flag word instead of the second
IsValidFixFirstFlag(r) == r.f1 = 1

\* the test `f2==1` that selects the valid-fix line
IsValidFix(r) == r.f2 = 1

\* line 122: the valid-fix line
ValidText(r, ts) ==
    << Tok("A", 0), Sep, DateTok(ts), Sep >> \o TimeToks(ts) \o
    << Sep, DegTok(r.lat), Sep, CharTok(r.clat), Sep, DegTok(r.lon), Sep,
       CharTok(r.clon), Sep, KnotsTok(r.speed), Sep, Sep, Sep, Sep, Term >>

\* line 135: the no-fix line
InvalidText(r, ts) ==
    << Tok("V", 0), Sep, DateTok(ts), Sep >> \o TimeToks(ts) \o
    << Sep, Sep, Sep, Sep, Sep, Sep, Tok("M", 0), Sep, Sep, Sep, Term >>

\* lines 118-140: the text written for record r with base time ft
RenderLine(r, ft) ==
    CHOOSE text \in
        { IF IsValidFix(r) THEN ValidText(r, ts) ELSE InvalidText(r, ts) :
          ts \in {AddSeconds(ft, r.time_diff)} } : TRUE


(* ---------------------- file name and base time ----------------------- *)
\* A path is the stem and the extension os.path.splitext() returns, each a
\* sequence of one-character strings.
LowerChar(c) == CASE c = "M" -> "m" [] c = "P" -> "p" [] OTHER -> c

\* fext.lower()
Lower(e) == [i \in 1..Len(e) |-> LowerChar(e[i])]

Mp4Ext == << ".", "m", "p", "4" >>

DigitOf(c) ==
    CASE c = "0" -> 0 [] c = "1" -> 1 [] c = "2" -> 2 [] c = "3" -> 3
      [] c = "4" -> 4 [] c = "5" -> 5 [] c = "6" -> 6 [] c = "7" -> 7
      [] c = "8" -> 8 [] c = "9" -> 9 [] OTHER -> 0 - 1

RECURSIVE Number(_)
Number(cs) ==
    IF cs = <<>> THEN 0
    ELSE Number(SubSeq(cs, 1, Len(cs) - 1)) * 10 + DigitOf(cs[Len(cs)])

\* fname[a:b] of Python (0-based, b exclusive, clipped to the length)
Slice(cs, a, b) == SubSeq(cs, a + 1, IF b <= Len(cs) THEN b ELSE Len(cs))

\* the fields strptime(timestamp, "%Y%m%d-%H%M%S") reads from fname[2:17]
TimeFields(ts) ==
    [year   |-> Number(Slice(ts, 0, 4)),   month  |-> Number(Slice(ts, 4, 6)),
     day    |-> Number(Slice(ts, 6, 8)),   hour   |-> Number(Slice(ts, 9, 11)),
     minute |-> Number(Slice(ts, 11, 13)), second |-> Number(Slice(ts, 13, 15))]

\* strptime raises ValueError unless the text has the format and names a
\* real date and time; " CET" parses only where the local zone is named CET
TimeParses(ts, cet) ==
    /\ cet
    /\ Len(ts) = 15
    /\ \A i \in (1..15) \ {9} : DigitOf(ts[i]) >= 0
    /\ ts[9] = "-"
    /\ LET t == TimeFields(ts)
       IN  /\ t.year >= 1
           /\ t.month \in 1..12
           /\ t.day \in 1..DaysInMonth(t.year, t.month)
           /\ t.hour \in 0..23
           /\ t.minute \in 0..59
           /\ t.second \in 0..59

\* why parse_70mai_mp4 returns before opening anything, or "ok"
NameCheck(name, cet) ==
    IF Lower(name.ext) # Mp4Ext THEN "not_mp4"
    ELSE IF Slice(name.stem, 0, 2) # << "N", "O" >> \/ Len(name.stem) < MinNameLen
         THEN "not_70mai"
    ELSE IF ~TimeParses(Slice(name.stem, 2, 17), cet) THEN "bad_timestamp"
    ELSE "ok"


(* ------------------------------ inputs -------------------------------- *)
\* The command line names up to MaxBatch files.  What each path names and
\* holds is drawn when main() reaches it.
Paths ==
    { [stem |-> << "N", "O", "2", "0", "2", "0", "0", "1", "2", "7", "-", "1", "7", "0", "4", "0", "9", "-", "0", "0", "0", "0", "1", "7", "_", "s" >>,
       ext  |-> << ".", "M", "P", "4" >>],
      [stem |-> << "N", "O", "2", "0", "2", "0", "0", "1", "2", "7", "-", "1", "7", "0", "4", "0", "9", "-", "0", "0", "0", "0", "1", "7", "_", "s" >>,
       ext  |-> << ".", "a", "v", "i" >>],
      [stem |-> << "N", "O", "2", "0", "2", "0", "0", "1", "2", "7", "-", "1", "7", "0", "4", "0", "9" >>,
       ext  |-> << ".", "m", "p", "4" >>],
      [stem |-> << "N", "O", "2", "0", "2", "0", "1", "3", "2", "7", "-", "1", "7", "0", "4", "0", "9", "-", "0", "0", "0", "0", "1", "7", "_", "s" >>,
       ext  |-> << ".", "M", "P", "4" >>] }

RECURSIVE EncLE(_, _)
EncLE(n, w) == IF w = 0 THEN <<>> ELSE << n % 256 >> \o EncLE(n \div 256, w - 1)

EncBE(n, w) == LET le == EncLE(n, w) IN [i \in 1..w |-> le[w + 1 - i]]

EncLESigned(n) ==
    IF n < 0 THEN LET le == EncLE(0 - n - 1, 4) IN [i \in 1..4 |-> 255 - le[i]]
    ELSE EncLE(n, 4)

EncRecord(f1, f2, td, speed, clat, lat, clon, lon) ==
    EncLE(f1, 4) \o EncLE(f2, 4) \o EncLE(td, 4) \o EncLE(speed, 4) \o
    << clat >> \o EncLESigned(lat) \o << clon >> \o EncLESigned(lon) \o
    [i \in 1..10 |-> 0]

\* a valid fix, a record without fix (f2 = 2, position bytes present) and a
\* record whose hemisphere byte is not ASCII
SampleRecord(kind) ==
    CASE kind = "A" -> EncRecord(3, 1, 5, 1852, 78, 51500, 87, 0 - 7250)
      [] kind = "V" -> EncRecord(3, 2, 25200, 926, 83, 0 - 300, 69, 14400)
      [] OTHER      -> EncRecord(3, 1, 7, 1852, 255, 51500, 69, 14400)

Patterns == { << "A", "V" >>, << "V", "A" >>, << "A", "X" >>, << "X", "A" >> }

RECURSIVE RecordStream(_, _)
RecordStream(pat, n) ==
    IF n = 0 THEN <<>>
    ELSE RecordStream(pat, n - 1) \o SampleRecord(pat[((n - 1) % 2) + 1])

FreeTag == << 102, 114, 101, 101 >>
BadTag == << 255, 71, 80, 83 >>
Tags == { GpsTag, FreeTag, BadTag }

\* declared sizes: 0 (last atom), below the header length, and 0..MaxRecs
\* records with and without 20 spare bytes
Sizes ==
    {0, 5} \cup { GpsSizeStart + RecordLen * k + d : k \in 0..MaxRecs, d \in {0, 20} }

\* bytes present after the header
PayLens ==
    {3} \cup { RecordLen * k + d : k \in 0..MaxRecs, d \in {0, 20, 28} }

OrdinaryHeader(size, tag) == EncBE(size, 4) \o tag
BigHeader(size, tag) == EncBE(1, 4) \o tag \o EncBE(size, 8)

Payload(pat, n) == SubSeq(RecordStream(pat, MaxRecs + 1), 1, n)

FirstAtoms ==
    { OrdinaryHeader(sz, tg) \o Payload(pat, n) :
        sz \in Sizes, tg \in Tags, pat \in Patterns, n \in PayLens }
    \cup
    { BigHeader(sz, tg) \o Payload(pat, n) :
        sz \in Sizes, tg \in Tags, pat \in Patterns, n \in PayLens }
    \cup
    { SubSeq(BigHeader(GpsSizeStart, tg), 1, n) : tg \in Tags, n \in {0, 5, 11} }
    \cup
    { EncBE(1, 4) \o tg \o [i \in 1..8 |-> 255] : tg \in Tags }

Trailers ==
    { <<>>,
      OrdinaryHeader(GpsSizeStart + RecordLen, GpsTag) \o Payload(<< "A", "V" >>, RecordLen),
      OrdinaryHeader(0, FreeTag) \o << 0, 0, 0, 0 >> }

Files == { a \o t : a \in FirstAtoms, t \in Trailers }


(* ------------------------------- state -------------------------------- *)
VARIABLES
    nfiles,         \* len(in_files)
    force,          \* options.force
    cet,            \* whether strptime accepts the zone name "CET" here
    idx,            \* number of paths main() has passed to parse_70mai_mp4
    pc,             \* "main", "SCANNING", "DECODING_TELEMETRY", "returned", "exit"
    exception,      \* the exception that ended the process, or "none"
    result,         \* how the last parse_70mai_mp4 call ended
    ftime,          \* base time parsed from the file name
    file,           \* bytes of the open input file
    cursor,         \* f.tell()
    offset,         \* offset
    atom_pos,       \* atom_pos
    atom_size,      \* atom_size, NoAtom before the first header
    atom_type,      \* atom_type (bytes of the tag)
    header_length,  \* bytes of header read for the current atom: 8 or 16
    gps_size,       \* gps_size
    block_lines,    \* Len(lines) when the current GPS atom was entered
    lines,          \* the lines written to outfile
    sinkOpen,       \* outfile is open
    log             \* logging calls of the current container: <<level, line>>

vars == << nfiles, force, cet, idx, pc, exception, result, ftime, file, cursor,
           offset, atom_pos, atom_size, atom_type, header_length, gps_size,
           block_lines, lines, sinkOpen, log >>

NoAtom == 0 - 1
NoTime == [year |-> 0, month |-> 0, day |-> 0, hour |-> 0, minute |-> 0, second |-> 0]

\* the locals of a parse_70mai_mp4 call before it has done anything
FreshLocals ==
    /\ ftime' = NoTime
    /\ file' = <<>>
    /\ cursor' = 0
    /\ offset' = 0
    /\ atom_pos' = 0
    /\ atom_size' = NoAtom
    /\ atom_type' = <<>>
    /\ header_length' = 0
    /\ gps_size' = 0
    /\ block_lines' = 0
    /\ lines' = <<>>

Init ==
    /\ nfiles \in 0..MaxBatch
    /\ force \in BOOLEAN
    /\ cet \in BOOLEAN
    /\ idx = 0
    /\ pc = "main"
    /\ exception = "none"
    /\ result = "none"
    /\ ftime = NoTime
    /\ file = <<>>
    /\ cursor = 0
    /\ offset = 0
    /\ atom_pos = 0
    /\ atom_size = NoAtom
    /\ atom_type = <<>>
    /\ header_length = 0
    /\ gps_size = 0
    /\ block_lines = 0
    /\ lines = <<>>
    /\ sinkOpen = FALSE
    /\ log = <<>>

(* ------------------------------ actions ------------------------------- *)
\* parse_70mai_mp4 returns to the loop of main()
Return(r) ==
    /\ pc' = "returned"
    /\ result' = r
    /\ exception' = exception

\* an exception nothing catches ends the process
Raise(e) ==
    /\ pc' = "exit"
    /\ result' = "raised"
    /\ exception' = e

\* lines 20-63: main() calls parse_70mai_mp4 on the next path.  outExists is
\* os.path.isfile(out_filename); outOpen and inOpen are what the two open()
\* calls do.
StartContainer ==
    /\ pc = "main"
    /\ idx < nfiles
    /\ \E name \in Paths, outExists \in BOOLEAN,
          outOpen \in {"ok", "FileNotFoundError", "PermissionError"},
          inOpen \in {"ok", "FileNotFoundError"} :
        LET chk == NameCheck(name, cet) IN
        IF chk # "ok" THEN
            /\ FreshLocals
            /\ sinkOpen' = FALSE
            /\ log' = << << "error", CASE chk = "not_mp4" -> 28
                                       [] chk = "not_70mai" -> 32
                                       [] OTHER -> 39 >> >>
            /\ Return(chk)
        ELSE IF outExists /\ ~force THEN
            /\ FreshLocals
            /\ sinkOpen' = FALSE
            /\ log' = << << "info", 54 >> >>
            /\ Return("skipped")
        ELSE IF outOpen = "FileNotFoundError" THEN
            /\ FreshLocals
            /\ sinkOpen' = FALSE
            /\ log' = << << "error", 60 >> >>
            /\ Return("no_sink")
        ELSE IF outOpen # "ok" THEN
            /\ FreshLocals
            /\ sinkOpen' = FALSE
            /\ log' = <<>>
            /\ Raise(outOpen)
        ELSE IF inOpen # "ok" THEN
            /\ FreshLocals
            /\ sinkOpen' = TRUE
            /\ log' = <<>>
            /\ Raise(inOpen)
        ELSE
            /\ ftime' = TimeFields(Slice(name.stem, 2, 17))
            /\ file' \in Files
            /\ cursor' = 0
            /\ offset' = 0
            /\ atom_pos' = 0
            /\ atom_size' = NoAtom
            /\ atom_type' = <<>>
            /\ header_length' = 0
            /\ gps_size' = 0
            /\ block_lines' = 0
            /\ lines' = <<>>
            /\ sinkOpen' = TRUE
            /\ log' = <<>>
            /\ pc' = "SCANNING"
            /\ UNCHANGED << result, exception >>
    /\ idx' = idx + 1
    /\ UNCHANGED << nfiles, force, cet >>


\* a slip: only an empty read is taken for the end of the file
IsEndOfFileEmptyOnly(h) == Len(h) = 0

\* line 70: the test that takes a header read for the end of the file
IsEndOfFile(h) == Len(h) < HeaderLen

\* a slip: `offset = atom_size` in place of `offset += atom_size`
NextOffsetAssigned(off, size) == size

\* lines 150-151: offset += atom_size, the position f.seek() moves to
NextOffset(off, size) == off + size

\* line 101: the guard of the record loop
MoreRecords(gsize, asize) == gsize + RecordLen <= asize

\* line 153 after a break out of the atom loop: close the sink and return
CloseAndReturn(r) ==
    /\ sinkOpen' = FALSE
    /\ Return(r)

\* lines 150-151 and the next turn of `while True`
SeekNext(off, size) ==
    /\ offset' = NextOffset(off, size)
    /\ UNCHANGED sinkOpen
    /\ IF NextOffset(off, size) >= SeekLimit THEN
           \* f.seek() raises
           /\ cursor' = cursor
           /\ Raise("ValueError")
       ELSE
           /\ cursor' = NextOffset(off, size)
           /\ pc' = "SCANNING"
           /\ UNCHANGED << result, exception >>

\* lines 66-99 and, for an atom that is not 'GPS ', 150-151: one turn of
\* the atom loop up to the record loop
ReadHeader ==
    /\ pc = "SCANNING"
    /\ \E h \in {Read(file, cursor, HeaderLen)} :
       /\ atom_pos' = cursor
       /\ IF IsEndOfFile(h) THEN
              \* lines 70-72
              /\ cursor' = cursor + Len(h)
              /\ log' = Append(log, << "debug", 71 >>)
              /\ CloseAndReturn("eof")
              /\ UNCHANGED << offset, atom_size, atom_type, header_length,
                              gps_size, block_lines >>
          ELSE IF Len(h) # HeaderLen THEN
              \* lines 75-77: struct.error, return without closing
              /\ cursor' = cursor + Len(h)
              /\ log' = Append(log, << "error", 76 >>)
              /\ Return("header_error")
              /\ UNCHANGED << offset, atom_size, atom_type, header_length,
                              gps_size, block_lines, sinkOpen >>
          ELSE \E u \in {UnpackHeader(h)} :
          IF ~IsAscii(u.atom_type) THEN
              \* line 79: atom_type.decode('ascii') raises
              /\ cursor' = cursor + HeaderLen
              /\ atom_size' = u.atom_size
              /\ Raise("UnicodeDecodeError")
              /\ UNCHANGED << offset, atom_type, header_length, gps_size,
                              block_lines, sinkOpen, log >>
          ELSE IF u.atom_size = 0 THEN
              \* lines 82-84
              /\ cursor' = cursor + HeaderLen
              /\ atom_size' = 0
              /\ atom_type' = u.atom_type
              /\ header_length' = HeaderLen
              /\ log' = Append(log, << "debug", 83 >>)
              /\ CloseAndReturn("last_atom")
              /\ UNCHANGED << offset, gps_size, block_lines >>
          ELSE LET big  == u.atom_size = 1
                   s64  == Read(file, cursor + HeaderLen, 8)
                   off  == IF big THEN offset + BigOffsetStep ELSE offset
                   size == IF big THEN BigEndian(s64) ELSE u.atom_size
                   hlen == IF big THEN HeaderLen + 8 ELSE HeaderLen
               IN
          IF big /\ Len(s64) < 8 THEN
              \* lines 88-92
              /\ cursor' = cursor + HeaderLen + Len(s64)
              /\ offset' = off
              /\ atom_size' = 1
              /\ atom_type' = u.atom_type
              /\ header_length' = HeaderLen + Len(s64)
              /\ log' = Append(log, << "error", 91 >>)
              /\ CloseAndReturn("big_size_truncated")
              /\ UNCHANGED << gps_size, block_lines >>
          ELSE
              /\ atom_size' = size
              /\ atom_type' = u.atom_type
              /\ header_length' = hlen
              /\ log' = log
              /\ IF u.atom_type = GpsTag THEN
                     \* lines 97-100
                     /\ cursor' = cursor + hlen
                     /\ offset' = off
                     /\ gps_size' = GpsSizeStart
                     /\ block_lines' = Len(lines)
                     /\ pc' = "DECODING_TELEMETRY"
                     /\ UNCHANGED << result, exception, sinkOpen >>
                 ELSE
                     /\ SeekNext(off, size)
                     /\ UNCHANGED << gps_size, block_lines >>
    /\ UNCHANGED << nfiles, force, cet, idx, ftime, file, lines >>

\* lines 101-151: one turn of the record loop; when the loop ends, the
\* warning about left-over bytes and the seek to the next atom
DecodeRecord ==
    /\ pc = "DECODING_TELEMETRY"
    /\ \E rec \in {Read(file, cursor, RecordLen)} :
       LET left == IF gps_size # atom_size THEN << << "warning", 148 >> >> ELSE <<>>
       IN
       IF ~MoreRecords(gps_size, atom_size) THEN
           \* the loop ends: lines 147-151
           /\ log' = log \o left
           /\ SeekNext(offset, atom_size)
           /\ UNCHANGED << gps_size, lines >>
       ELSE IF Len(rec) < RecordLen THEN
           \* lines 103-105, then 147-151
           /\ log' = Append(log, << "error", 104 >>) \o left
           /\ SeekNext(offset, atom_size)
           /\ UNCHANGED << gps_size, lines >>
       ELSE \E r \in {UnpackRecord(rec)} :
       IF ~IsAscii(r.clat) \/ ~IsAscii(r.clon) THEN
           \* lines 112-113: decode('ascii') raises
           /\ cursor' = cursor + RecordLen
           /\ Raise("UnicodeDecodeError")
           /\ UNCHANGED << offset, gps_size, lines, sinkOpen, log >>
       ELSE
           \* lines 116-145
           /\ cursor' = cursor + RecordLen
           /\ lines' = Append(lines, RenderLine(r, ftime))
           /\ gps_size' = gps_size + RecordLen
           /\ UNCHANGED << offset, pc, result, exception, sinkOpen, log >>
    /\ UNCHANGED << nfiles, force, cet, idx, ftime, file, atom_pos, atom_size,
                    atom_type, header_length, block_lines >>

\* line 222: parse_70mai_mp4 has returned, its locals are gone and the loop
\* of main() goes on
LoopNext ==
    /\ pc = "returned"
    /\ pc' = "main"
    /\ FreshLocals
    /\ log' = <<>>
    /\ UNCHANGED << nfiles, force, cet, idx, exception, result, sinkOpen >>

\* lines 221-223: the loop of main() has no path left
MainExit ==
    /\ pc = "main"
    /\ idx = nfiles
    /\ pc' = "exit"
    /\ UNCHANGED << nfiles, force, cet, idx, exception, result, ftime, file,
                    cursor, offset, atom_pos, atom_size, atom_type,
                    header_length, gps_size, block_lines, lines, sinkOpen, log >>

Next == StartContainer \/ ReadHeader \/ DecodeRecord \/ LoopNext \/ MainExit

Spec == Init /\ [][Next]_vars

\* the interpreter runs the program to its end
FairSpec == Spec /\ WF_vars(Next)

TypeOK ==
    /\ pc \in {"main", "SCANNING", "DECODING_TELEMETRY", "returned", "exit"}
    /\ idx \in 0..nfiles
    /\ cursor >= 0
    /\ sinkOpen \in BOOLEAN


(* --------------------------- reading lines ---------------------------- *)
\* the comma-separated fields of a line, the terminating ";" left out
RECURSIVE Split(_, _, _)
Split(toks, cur, acc) ==
    IF toks = <<>> THEN Append(acc, cur)
    ELSE IF Head(toks) = Sep THEN Split(Tail(toks), <<>>, Append(acc, cur))
    ELSE Split(Tail(toks), Append(cur, Head(toks)), acc)

Fields(text) ==
    Split(IF text # <<>> /\ text[Len(text)] = Term
          THEN SubSeq(text, 1, Len(text) - 1) ELSE text, <<>>, <<>>)

\* the index of the field that is the literal M
MField(fs) == CHOOSE i \in 1..Len(fs) : fs[i] = << Tok("M", 0) >>

HasM(fs) == \E i \in 1..Len(fs) : fs[i] = << Tok("M", 0) >>

\* the fields strictly between the time field (the third) and the literal M
BetweenTimeAndM(fs) == { i \in 1..Len(fs) : 3 < i /\ i < MField(fs) }

DataKinds == {"8.4f", "chr", ".2f"}

HasData(text) == \E i \in 1..Len(text) : text[i].k \in DataKinds

\* the record the next turn of the record loop reads
NextRecord == UnpackRecord(Read(file, cursor, RecordLen))

\* a step of the record loop that writes a line
WritesLine == pc = "DECODING_TELEMETRY" /\ Len(lines') = Len(lines) + 1

\* the header the atom loop is about to read
NextHeader == Read(file, cursor, HeaderLen)

ErrorLogged(l) == \E i \in 1..Len(l) : l[i][1] = "error"


(* ------------------------------- claims ------------------------------- *)
\* the atom loop has just finished a 'GPS ' atom that lies wholly in the file
GpsAtomDone ==
    /\ pc = "SCANNING"
    /\ atom_type = GpsTag
    /\ atom_size >= GpsSizeStart
    /\ atom_pos + atom_size <= Len(file)

\* C1: when a 'GPS ' atom of size B >= 8 whose bytes are all in the file has
\* been processed, exactly (B - 8) div 36 lines were written for it.
C1_LineCount ==
    GpsAtomDone => Len(lines) - block_lines = (atom_size - GpsSizeStart) \div RecordLen

\* C2: after an atom with a 64-bit size S (32-bit size field 1) the next
\* header is read at start position + S, as after an ordinary atom of size S.
C2_BigAtomBoundaries ==
    (pc = "SCANNING" /\ header_length = HeaderLen + 8) => cursor = atom_pos + atom_size

\* C3: when the program ends, every path of the batch has been passed to
\* parse_70mai_mp4, whatever happened to the paths before it.
C3_BatchCompletes == pc = "exit" => idx = nfiles

\* C4: whenever parse_70mai_mp4 is left, by return or by exception, the
\* output file is closed.
C4_SinkClosedOnExit == pc \in {"returned", "exit"} => ~sinkOpen

\* C7: a header whose 32-bit size is 0 ends the scan whatever its tag: no
\* seek, no further read, no line, a clean end with the output file closed.
C7_SizeZeroEndsScan ==
    [][(/\ pc = "SCANNING"
        /\ Len(NextHeader) = HeaderLen
        /\ UnpackHeader(NextHeader).atom_size = 0)
       => (/\ pc' = "returned"
           /\ result' = "last_atom"
           /\ ~sinkOpen'
           /\ lines' = lines
           /\ offset' = offset
           /\ cursor' = cursor + HeaderLen)]_vars

\* the step seeks to the next atom
Seeks == pc \in {"SCANNING", "DECODING_TELEMETRY"} /\ pc' = "SCANNING"

\* the position the read cursor has reached before the seek of the step
Reached == IF pc = "SCANNING" THEN cursor + header_length' ELSE cursor

\* C8: every seek goes forward, to start position + size of the atom just
\* processed.
C8_ForwardSeeks ==
    [][Seeks => (cursor' = atom_pos' + atom_size' /\ cursor' >= Reached)]_vars

\* a turn of the record loop meets a short record
ShortRecord ==
    /\ pc = "DECODING_TELEMETRY"
    /\ MoreRecords(gps_size, atom_size)
    /\ Len(Read(file, cursor, RecordLen)) < RecordLen

\* the record loop ends with 1 to 35 bytes of the atom left
LeftOver ==
    /\ pc = "DECODING_TELEMETRY"
    /\ ~MoreRecords(gps_size, atom_size)
    /\ atom_size - gps_size \in 1..(RecordLen - 1)

\* C9: a short record or 1 to 35 left-over bytes end the decoding of the
\* atom, keep the lines written so far and return to scanning; the
\* container does not fail.
C9_RecordAnomaliesNotFatal ==
    [][(ShortRecord \/ LeftOver)
       => (/\ pc' = "SCANNING"
           /\ lines' = lines
           /\ sinkOpen'
           /\ exception' = "none")]_vars


\* the last header read returned 1 to 7 bytes
TruncatedHeaderRead ==
    /\ pc = "returned"
    /\ result \in {"eof", "header_error"}
    /\ cursor - atom_pos \in 1..(HeaderLen - 1)

\* C5 as stated: a header read of 1 to 7 bytes is a parse error that fails
\* the container and is reported as an error.
C5_TruncatedHeaderFails ==
    TruncatedHeaderRead => (result = "header_error" /\ ErrorLogged(log))

\* C5 as amended: a header read of fewer than 8 bytes, 0 to 7, ends the
\* scan as the normal end of the file: the output file is closed, no line
\* is added and nothing but the debug message of line 71 is logged.
C5_ShortHeaderEndsScan ==
    [][(pc = "SCANNING" /\ Len(NextHeader) < HeaderLen)
       => (/\ pc' = "returned"
           /\ result' = "eof"
           /\ ~sinkOpen'
           /\ lines' = lines
           /\ log' = Append(log, << "debug", 71 >>))]_vars

C5_Witness ==
    /\ TruncatedHeaderRead
    /\ result = "eof"
    /\ ~sinkOpen
    /\ ~ErrorLogged(log)

\* the line written for record r has status A and all five data fields when
\* r.f2 = 1; otherwise it has status V, no data, n empty fields between the
\* time field and the literal M, and three empty fields after M
LineFollowsValidity(r, text, n) ==
    LET fs == Fields(text) IN
    IF r.f2 = 1 THEN
        /\ Len(fs) >= 8
        /\ fs[1] = << Tok("A", 0) >>
        /\ fs[4] = << DegTok(r.lat) >>
        /\ fs[5] = << CharTok(r.clat) >>
        /\ fs[6] = << DegTok(r.lon) >>
        /\ fs[7] = << CharTok(r.clon) >>
        /\ fs[8] = << KnotsTok(r.speed) >>
    ELSE
        /\ fs[1] = << Tok("V", 0) >>
        /\ ~HasData(text)
        /\ HasM(fs)
        /\ Cardinality(BetweenTimeAndM(fs)) = n
        /\ \A i \in BetweenTimeAndM(fs) : fs[i] = <<>>
        /\ Len(fs) = MField(fs) + 3
        /\ \A i \in (MField(fs) + 1)..Len(fs) : fs[i] = <<>>

\* C6 as stated: the line follows the validity flag alone, and the no-fix
\* line has six empty fields between the time field and the literal M.
C6_SixEmptyFields ==
    [][WritesLine => LineFollowsValidity(NextRecord, lines'[Len(lines')], 6)]_vars

\* C6 as amended: the line follows the validity flag alone, and the no-fix
\* line has five empty fields (six commas) between the time field and the
\* literal M, then three empty fields before the terminating ";".
C6_ValidityBranching ==
    [][WritesLine => LineFollowsValidity(NextRecord, lines'[Len(lines')], 5)]_vars

C6_Witness ==
    /\ \E i \in 1..Len(lines) : lines[i][1].k = "A"
    /\ \E i \in 1..Len(lines) : lines[i][1].k = "V"

\* C10: every header is read at a higher position than the header before it,
\* and the program comes to its end.
C10_ScanTerminates ==
    /\ [](pc = "SCANNING" /\ atom_size # NoAtom => cursor > atom_pos)
    /\ <>(pc = "exit")

\* an atom with a size below the header length, or a 'GPS ' atom that
\* claims more bytes than the file has, is behind and the scan goes on
C10_Witness ==
    /\ pc = "SCANNING"
    /\ atom_size # NoAtom
    /\ \/ atom_size < HeaderLen
       \/ atom_type = GpsTag /\ atom_pos + atom_size > Len(file)
    /\ cursor > atom_pos

=============================================================================
